---- MODULE Spec2Model ----
(***************************************************************************)
(* The upload pipeline of src/components/FileUpload.tsx: the cell parsers, *)
(* the column profiler and selector (processRawArray), the series builder  *)
(* (handleFinalConfirm) and the interpolator (interpolateValues), together *)
(* with the component state they read and write.                           *)
(*                                                                         *)
(* Conventions.  A string is a sequence of one-character strings.  A JS    *)
(* number is an exact rational <<n, d>> with d > 0 in lowest terms; NaN is *)
(* <<0, 0>>; null is <<"null">> and undefined is <<"undefined">>.          *)
(* Arithmetic is exact: the rounding of IEEE-754 doubles is not modelled.  *)
(* A timestamp is getTime() counted in hours.  Column and array indices    *)
(* are 0-based, as in the source.                                          *)
(***************************************************************************)
EXTENDS Integers, Sequences, FiniteSets, TLC

VARIABLES
    stage,              \* Stage.UPLOAD | Stage.VERIFY
    error,              \* error message or Null
    cleaningStatus,     \* status text or Null
    rawHeaders,         \* header labels of the stored table
    rawRows,            \* data rows of the stored table
    columnMeta,         \* ColumnMeta record per column
    selectedDateCol,    \* index of the date column, -1 at construction
    selectedMetricCol,  \* index of the metric column, -1 at construction
    reading,            \* sheets of the FileReaders in flight
    uploads,            \* number of files picked so far
    processed,          \* history: the sheet handed to the latest reader.onload
    emitted,            \* history: the onDataLoaded call made by the latest step
    data,               \* the argument of interpolateValues
    interpolated,       \* interpolateValues(data)
    reinterpolated,     \* interpolateValues(interpolated)
    ipc,                \* "idle" | "input" | "once" | "twice"
    state,              \* the state object of App
    isForecasting,      \* isForecastingRef.current
    requests,           \* the runForecastingContest calls in flight
    loads               \* number of handleDataLoaded calls so far

vars == <<stage, error, cleaningStatus, rawHeaders, rawRows, columnMeta,
          selectedDateCol, selectedMetricCol, reading, uploads, processed,
          emitted, data, interpolated, reinterpolated, ipc,
          state, isForecasting, requests, loads>>

uploadVars == <<stage, error, cleaningStatus, rawHeaders, rawRows, columnMeta,
                selectedDateCol, selectedMetricCol, reading, uploads, processed,
                emitted>>

interpVars == <<data, interpolated, reinterpolated, ipc>>

appVars == <<state, isForecasting, requests, loads>>

(***************************************************************************)
(* JS values                                                               *)
(***************************************************************************)
Null == <<"null">>

Undefined == <<"undefined">>

NaN == <<0, 0>>

Abs(x) == IF x < 0 THEN 0 - x ELSE x

RECURSIVE GCD(_, _)
GCD(a, b) == IF b = 0 THEN a ELSE GCD(b, a % b)

\* the rational n/d in lowest terms with a positive denominator
Rat(n, d) ==
    IF d = 0 THEN NaN
    ELSE LET g == GCD(Abs(n), Abs(d))
             s == IF d < 0 THEN 0 - 1 ELSE 1
         IN  <<(s * n) \div g, (s * d) \div g>>

Num(n) == <<n, 1>>

IsNaN(x) == x = NaN

Add(x, y) == IF IsNaN(x) \/ IsNaN(y) THEN NaN
             ELSE Rat(x[1] * y[2] + y[1] * x[2], x[2] * y[2])

Sub(x, y) == IF IsNaN(x) \/ IsNaN(y) THEN NaN
             ELSE Rat(x[1] * y[2] - y[1] * x[2], x[2] * y[2])

Mul(x, y) == IF IsNaN(x) \/ IsNaN(y) THEN NaN
             ELSE Rat(x[1] * y[1], x[2] * y[2])

Div(x, y) == IF IsNaN(x) \/ IsNaN(y) THEN NaN
             ELSE Rat(x[1] * y[2], x[2] * y[1])

\* x > y on numbers; any comparison with NaN is false
Gt(x, y) == ~IsNaN(x) /\ ~IsNaN(y) /\ x[1] * y[2] > y[1] * x[2]

\* the sign of a comparator's result: -1, 0 or 1
Sign(x) == IF x[1] < 0 THEN 0 - 1 ELSE IF x[1] > 0 THEN 1 ELSE 0

\* JS truthiness of a value that is a number, null or undefined
Truthy(v) == v # Null /\ v # Undefined /\ v # NaN /\ v # Num(0)

\* array[i] with a 0-based index; undefined outside the array
At(array, i) == IF i >= 0 /\ i < Len(array) THEN array[i + 1] ELSE Undefined

(***************************************************************************)
(* interpolateValues                                                       *)
(***************************************************************************)
RECURSIVE ScanPrev(_, _)
\* while (prevIdx >= 0 && result[prevIdx] === null) prevIdx--;
ScanPrev(result, prevIdx) ==
    IF prevIdx >= 0 /\ At(result, prevIdx) = Null
    THEN ScanPrev(result, prevIdx - 1)
    ELSE prevIdx

RECURSIVE ScanNext(_, _)
\* while (nextIdx < result.length && result[nextIdx] === null) nextIdx++;
ScanNext(result, nextIdx) ==
    IF nextIdx < Len(result) /\ At(result, nextIdx) = Null
    THEN ScanNext(result, nextIdx + 1)
    ELSE nextIdx

\* result[i] = value
Store(result, i, value) == [result EXCEPT ![i + 1] = value]

\* a slip: the midpoint of the two anchors, whatever the position in the gap
LerpMidpoint(y1, y2, i, prevIdx, nextIdx) ==
    Div(Add(y1, y2), Num(2))

\* y1 + (i - prevIdx) * (y2 - y1) / (nextIdx - prevIdx)
Lerp(y1, y2, i, prevIdx, nextIdx) ==
    Add(y1, Div(Mul(Num(i - prevIdx), Sub(y2, y1)), Num(nextIdx - prevIdx)))

\* a slip: the final else branch is missing, so a sequence without any
\* anchor keeps its nulls
FillNoFallback(result, i, prevIdx, nextIdx) ==
    IF prevIdx >= 0 /\ nextIdx < Len(result)
    THEN Store(result, i, Lerp(At(result, prevIdx), At(result, nextIdx),
                               i, prevIdx, nextIdx))
    ELSE IF prevIdx >= 0
    THEN Store(result, i, At(result, prevIdx))
    ELSE IF nextIdx < Len(result)
    THEN Store(result, i, At(result, nextIdx))
    ELSE result

\* a slip: the carry-forward branch is missing, so a trailing gap falls
\* through to the fallback 0
FillNoCarryForward(result, i, prevIdx, nextIdx) ==
    IF prevIdx >= 0 /\ nextIdx < Len(result)
    THEN Store(result, i, Lerp(At(result, prevIdx), At(result, nextIdx),
                               i, prevIdx, nextIdx))
    ELSE IF prevIdx < 0 /\ nextIdx < Len(result)
    THEN Store(result, i, At(result, nextIdx))
    ELSE Store(result, i, Num(0))

\* a slip: a leading gap copies its right neighbour result[i + 1] instead of
\* the scanned anchor result[nextIdx]
FillAdjacentNext(result, i, prevIdx, nextIdx) ==
    IF prevIdx >= 0 /\ nextIdx < Len(result)
    THEN Store(result, i, Lerp(At(result, prevIdx), At(result, nextIdx),
                               i, prevIdx, nextIdx))
    ELSE IF prevIdx >= 0
    THEN Store(result, i, At(result, prevIdx))
    ELSE IF nextIdx < Len(result)
    THEN Store(result, i, At(result, i + 1))
    ELSE Store(result, i, Num(0))

\* the four-way choice of the loop body, given the two scanned indices
Fill(result, i, prevIdx, nextIdx) ==
    IF prevIdx >= 0 /\ nextIdx < Len(result)
    THEN Store(result, i, Lerp(At(result, prevIdx), At(result, nextIdx),
                               i, prevIdx, nextIdx))
    ELSE IF prevIdx >= 0
    THEN Store(result, i, At(result, prevIdx))
    ELSE IF nextIdx < Len(result)
    THEN Store(result, i, At(result, nextIdx))
    ELSE Store(result, i, Num(0))

\* a slip: the gap test is !result[i], which also takes the number 0 for a gap
FillAtFalsy(result, i) ==
    IF At(result, i) = Null \/ At(result, i) = Num(0)
    THEN Fill(result, i, ScanPrev(result, i - 1), ScanNext(result, i + 1))
    ELSE result

\* one iteration of the for loop at index i
FillAt(result, i) ==
    IF At(result, i) = Null
    THEN Fill(result, i, ScanPrev(result, i - 1), ScanNext(result, i + 1))
    ELSE result

RECURSIVE InterpolateFromSkipLast(_, _)
\* a slip: the loop stops one short, at i < result.length - 1
InterpolateFromSkipLast(result, i) ==
    IF i < Len(result) - 1
    THEN InterpolateFromSkipLast(FillAt(result, i), i + 1)
    ELSE result

RECURSIVE InterpolateFrom(_, _)
\* for (let i = ...; i < result.length; i++) { ... }
InterpolateFrom(result, i) ==
    IF i < Len(result)
    THEN InterpolateFrom(FillAt(result, i), i + 1)
    ELSE result

RECURSIVE FirstGapFrom(_, _)
\* a slip: the loop returns as soon as it has filled one gap
FirstGapFrom(result, i) ==
    IF i >= Len(result) THEN result
    ELSE IF At(result, i) = Null THEN FillAt(result, i)
    ELSE FirstGapFrom(result, i + 1)

interpolateFirstGap(input) == FirstGapFrom(input, 0)

\* const result = [...data]; for (...) {...}; return result
interpolateValues(input) == InterpolateFrom(input, 0)

(***************************************************************************)
(* Strings                                                                 *)
(***************************************************************************)
Digits == <<"0", "1", "2", "3", "4", "5", "6", "7", "8", "9">>

IsDigit(c) == \E k \in 1..10 : Digits[k] = c

DigitVal(c) == (CHOOSE k \in 1..10 : Digits[k] = c) - 1

RECURSIVE Pow10(_)
Pow10(k) == IF k = 0 THEN 1 ELSE 10 * Pow10(k - 1)

\* the characters the regular expression /[$,\s]/ matches
IsStripped(c) == c \in {"$", ",", " "}

RECURSIVE Strip(_)
\* val.replace(/[$,\s]/g, '')
Strip(s) ==
    IF s = <<>> THEN <<>>
    ELSE IF IsStripped(Head(s)) THEN Strip(Tail(s))
    ELSE <<Head(s)>> \o Strip(Tail(s))

RECURSIVE TrimLeft(_)
TrimLeft(s) == IF s # <<>> /\ Head(s) = " " THEN TrimLeft(Tail(s)) ELSE s

RECURSIVE TrimRight(_)
TrimRight(s) ==
    IF s # <<>> /\ s[Len(s)] = " " THEN TrimRight(SubSeq(s, 1, Len(s) - 1)) ELSE s

\* String.prototype.trim
Trim(s) == TrimRight(TrimLeft(s))

RECURSIVE DigitsEnd(_, _)
\* the first position at or after `from` that holds no digit
DigitsEnd(s, from) ==
    IF from <= Len(s) /\ IsDigit(s[from]) THEN DigitsEnd(s, from + 1) ELSE from

RECURSIVE DigitsValue(_, _, _)
\* the number written by the digits s[from .. to - 1]
DigitsValue(s, from, to) ==
    IF from >= to THEN 0
    ELSE DigitsValue(s, from, to - 1) * 10 + DigitVal(s[to - 1])

\* parseFloat: the value of the longest prefix that is a decimal literal
\* (sign, digits, fraction), NaN when there is none.  Exponents and
\* "Infinity" are outside the alphabets used here.
parseFloat(s) ==
    LET signed   == s # <<>> /\ s[1] \in {"+", "-"}
        intFrom  == IF signed THEN 2 ELSE 1
        intTo    == DigitsEnd(s, intFrom)
        hasDot   == intTo <= Len(s) /\ s[intTo] = "."
        fracFrom == intTo + 1
        fracTo   == IF hasDot THEN DigitsEnd(s, fracFrom) ELSE fracFrom
        nFrac    == fracTo - fracFrom
        mag      == Rat(DigitsValue(s, intFrom, intTo) * Pow10(nFrac)
                          + DigitsValue(s, fracFrom, fracTo), Pow10(nFrac))
    IN  IF intTo = intFrom /\ nFrac = 0 THEN NaN
        ELSE IF signed /\ s[1] = "-" THEN Sub(Num(0), mag) ELSE mag

\* !val for a cell: undefined, null and the empty string are falsy
Falsy(val) == val = Undefined \/ val = Null \/ val = <<>>

cleanNumericString(val) ==
    IF Falsy(val) THEN Null
    ELSE LET parsed == parseFloat(Trim(Strip(val)))
         IN  IF IsNaN(parsed) THEN Null ELSE parsed

(***************************************************************************)
(* Dates.  new Date(val) is modelled on the formats ECMAScript fixes: the  *)
(* date-time string format (YYYY, YYYY-MM, YYYY-MM-DD, YYYY-MM-DDTHH:mmZ)  *)
(* and the toUTCString format ("Mon, 01 Jan 2024 00:00:00 GMT"); any other *)
(* text is an Invalid Date.                                                *)
(***************************************************************************)
HoursPerDay == 24

MinutesPerHour == 60

MonthNames == << <<"J","a","n">>, <<"F","e","b">>, <<"M","a","r">>,
                 <<"A","p","r">>, <<"M","a","y">>, <<"J","u","n">>,
                 <<"J","u","l">>, <<"A","u","g">>, <<"S","e","p">>,
                 <<"O","c","t">>, <<"N","o","v">>, <<"D","e","c">> >>

AllDigits(s, from, to) == \A k \in from..to : IsDigit(s[k])

IsLeap(y) == (y % 4 = 0 /\ y % 100 # 0) \/ y % 400 = 0

DaysInMonth(y, m) ==
    IF m = 2 THEN (IF IsLeap(y) THEN 29 ELSE 28)
    ELSE IF m \in {4, 6, 9, 11} THEN 30 ELSE 31

\* days from 1970-01-01 to the civil date y-m-d (proleptic Gregorian)
DaysFromCivil(y, m, d) ==
    LET yy  == IF m <= 2 THEN y - 1 ELSE y
        era == yy \div 400
        yoe == yy - era * 400
        mp  == (m + 9) % 12
        doy == (153 * mp + 2) \div 5 + d - 1
        doe == yoe * 365 + yoe \div 4 - yoe \div 100 + doy
    IN  era * 146097 + doe - 719468

\* the time value of a UTC date and time of day, in hours; NaN when a field
\* is out of range
MakeTime(y, m, d, hh, mm) ==
    IF m \in 1..12 /\ d >= 1 /\ d <= DaysInMonth(y, m) /\ hh \in 0..23 /\ mm \in 0..59
    THEN Rat((DaysFromCivil(y, m, d) * HoursPerDay + hh) * MinutesPerHour + mm,
             MinutesPerHour)
    ELSE NaN

IsIsoShape(s) ==
    /\ Len(s) \in {4, 7, 10, 17}
    /\ AllDigits(s, 1, 4)
    /\ Len(s) >= 7 => s[5] = "-" /\ AllDigits(s, 6, 7)
    /\ Len(s) >= 10 => s[8] = "-" /\ AllDigits(s, 9, 10)
    /\ Len(s) = 17 => /\ s[11] = "T" /\ AllDigits(s, 12, 13)
                      /\ s[14] = ":" /\ AllDigits(s, 15, 16) /\ s[17] = "Z"

ParseIso(s) ==
    MakeTime(DigitsValue(s, 1, 5),
             IF Len(s) >= 7 THEN DigitsValue(s, 6, 8) ELSE 1,
             IF Len(s) >= 10 THEN DigitsValue(s, 9, 11) ELSE 1,
             IF Len(s) = 17 THEN DigitsValue(s, 12, 14) ELSE 0,
             IF Len(s) = 17 THEN DigitsValue(s, 15, 17) ELSE 0)

IsUtcShape(s) ==
    /\ Len(s) = 29
    /\ s[4] = "," /\ s[5] = " " /\ AllDigits(s, 6, 7) /\ s[8] = " "
    /\ \E m \in 1..12 : MonthNames[m] = SubSeq(s, 9, 11)
    /\ s[12] = " " /\ AllDigits(s, 13, 16) /\ s[17] = " "
    /\ AllDigits(s, 18, 19) /\ s[20] = ":" /\ AllDigits(s, 21, 22)
    /\ s[23] = ":" /\ AllDigits(s, 24, 25)
    /\ SubSeq(s, 26, 29) = <<" ", "G", "M", "T">>

ParseUtc(s) ==
    MakeTime(DigitsValue(s, 13, 17),
             CHOOSE m \in 1..12 : MonthNames[m] = SubSeq(s, 9, 11),
             DigitsValue(s, 6, 8),
             DigitsValue(s, 18, 20),
             DigitsValue(s, 21, 23))

\* new Date(val).getTime()
DateGetTime(val) ==
    IF IsIsoShape(val) THEN ParseIso(val)
    ELSE IF IsUtcShape(val) THEN ParseUtc(val)
    ELSE NaN

tryParseDate(val) ==
    IF Falsy(val) \/ Len(val) < 4 THEN Null
    ELSE LET time == DateGetTime(val)
         IN  IF IsNaN(time) THEN Null ELSE time

\* new Date(ts).toISOString().split('T')[0]: the UTC calendar day of ts,
\* written as the number of days since 1970-01-01
IsoDate(ts) == ts[1] \div (HoursPerDay * ts[2])

(***************************************************************************)
(* The files a user can pick                                               *)
(***************************************************************************)
MaxCols == 3

MaxRows == 3

MaxCells == 6

MaxUploads == 1

CellEmpty == <<>>

CellFive == <<"5">>

CellIso == <<"2", "0", "2", "4", "-", "0", "1", "-", "0", "2">>

CellIsoNoon == <<"2", "0", "2", "4", "-", "0", "1", "-", "0", "2",
                 "T", "1", "2", ":", "0", "0", "Z">>

CellUtc == <<"M", "o", "n", ",", " ", "0", "1", " ", "J", "a", "n", " ",
             "2", "0", "2", "4", " ", "0", "0", ":", "0", "0", ":", "0", "0",
             " ", "G", "M", "T">>

Cells == {CellEmpty, CellFive, CellIso, CellIsoNoon, CellUtc}

\* the first day of the epoch: new Date("1970-01-01").getTime() is 0
CellEpoch == <<"1", "9", "7", "0", "-", "0", "1", "-", "0", "1">>

\* a second alphabet, with the cell whose timestamp is 0
EpochCells == {CellEmpty, CellFive, CellEpoch, CellIso}

HeaderLabels == <<<<"a">>, <<"b">>, <<"c">>, <<"d">>>>

\* the data rows of a sheet of nr full rows and nc columns
Tables(nc, nr) == [1..nr -> [1..nc -> Cells]]

\* the same over the second alphabet
EpochTables(nc, nr) == [1..nr -> [1..nc -> EpochCells]]

\* a third alphabet, for sheets whose rows may stop before the last column
RaggedCells == {CellEmpty, CellFive, CellIso}

\* the rows sheet_to_json returns for a sheet of nc columns: a row holds the
\* cells up to its last filled one
RaggedRows(nc) == UNION {[1..n -> RaggedCells] : n \in 0..nc}

RaggedTables(nc, nr) == [1..nr -> RaggedRows(nc)]

\* tall sheets: a column holds dates, then numbers, then blanks
TallRows == 5

TallColumns(nr) ==
    {[r \in 1..nr |-> IF r <= d THEN CellIso
                      ELSE IF r <= d + n THEN CellFive ELSE CellEmpty] :
        <<d, n>> \in {p \in (0..nr) \X (0..nr) : p[1] + p[2] <= nr}}

TallTables(nc, nr) ==
    {[r \in 1..nr |-> [c \in 1..nc |-> cols[c][r]]] :
        cols \in [1..nc -> TallColumns(nr)]}

\* the sheets of one data row at most, for sequences of uploads
MaxReloads == 2

ShortTables(nc, nr) == [1..nr -> [1..nc -> RaggedCells]]

\* a file that read() opens, with the rows sheet_to_json returns for it
SheetFile(rows) == [valid |-> TRUE, sheet |-> rows]

\* a file that read() throws on
CorruptFile == [valid |-> FALSE, sheet |-> <<>>]

\* the values row[colIndex] takes; the two cell parsers are tabulated over
\* them once
CellValues == Cells \cup EpochCells \cup {Undefined}

DateOf == [val \in CellValues |-> tryParseDate(val)] @@ <<>>

NumberOf == [val \in CellValues |-> cleanNumericString(val)] @@ <<>>

(***************************************************************************)
(* Array.prototype.sort: a stable sort (ECMAScript 2019) by a comparator   *)
(* that returns a negative, zero or positive sign                          *)
(***************************************************************************)
\* the comparators handed to sort, by name
Compare(by, a, b) ==
    CASE by = "dateDensityDesc" -> Sign(Sub(b.dateDensity, a.dateDensity))
      [] by = "numericDensityDesc" -> Sign(Sub(b.numericDensity, a.numericDensity))
      [] by = "timestampAsc" -> Sign(Sub(a.timestamp, b.timestamp))

RECURSIVE InsertUnstable(_, _, _)
\* a slip: the element goes before the elements it compares equal to
InsertUnstable(sorted, x, by) ==
    IF sorted = <<>> THEN <<x>>
    ELSE IF Compare(by, sorted[Len(sorted)], x) < 0 THEN Append(sorted, x)
    ELSE Append(InsertUnstable(SubSeq(sorted, 1, Len(sorted) - 1), x, by),
                sorted[Len(sorted)])

RECURSIVE InsertStable(_, _, _)
\* x goes after every element of `sorted` that does not compare greater
InsertStable(sorted, x, by) ==
    IF sorted = <<>> THEN <<x>>
    ELSE IF Compare(by, sorted[Len(sorted)], x) <= 0 THEN Append(sorted, x)
    ELSE Append(InsertStable(SubSeq(sorted, 1, Len(sorted) - 1), x, by),
                sorted[Len(sorted)])

RECURSIVE SortPrefix(_, _, _)
SortPrefix(array, k, by) ==
    IF k = 0 THEN <<>>
    ELSE InsertStable(SortPrefix(array, k - 1, by), array[k], by)

Sort(array, by) == SortPrefix(array, Len(array), by)

(***************************************************************************)
(* processRawArray: the column profiler and the column selector            *)
(***************************************************************************)
Msg(text) == <<text>>

ErrNoDate ==
    Msg("No chronological column detected. Ensure your file has a date column.")

ErrNoMetric == Msg("No numeric metric values detected.")

ErrTooSmall == Msg("Dataset is too small to analyze.")

ErrProcess ==
    Msg("Failed to process file. Ensure it is a valid CSV or Excel file.")

ErrRead == Msg("Read error. The file might be corrupted.")

StatusAnalyzing == Msg("Analyzing schema...")

StatusCleansing == Msg("Cleansing Vector Stream...")

StatusStreaming == Msg("Streaming content...")

\* a slip: the cutoff typed as 0.04
ThresholdLow == Rat(4, 100)

\* the candidate cutoff 0.4
Threshold == Rat(4, 10)

\* rows.forEach(row => { if (tryParseDate(row[colIndex])) dateMatches++; })
dateMatches(rows, colIndex) ==
    Cardinality({r \in 1..Len(rows) : Truthy(DateOf[At(rows[r], colIndex)])})

\* rows.forEach(row => { if (cleanNumericString(row[colIndex]) !== null) numericMatches++; })
numericMatches(rows, colIndex) ==
    Cardinality({r \in 1..Len(rows) : NumberOf[At(rows[r], colIndex)] # Null})

\* a slip: >= 0.4 in place of > 0.4
ColumnStatsAtLeast(headers, rows, colIndex) ==
    LET numRows == Num(Len(rows))
        dateDensity == Div(Num(dateMatches(rows, colIndex)), numRows)
        numericDensity == Div(Num(numericMatches(rows, colIndex)), numRows)
    IN  [index |-> colIndex,
         header |-> At(headers, colIndex),
         isLikelyDate |-> Gt(dateDensity, Threshold) \/ dateDensity = Threshold,
         isLikelyNumeric |-> Gt(numericDensity, Threshold) \/ numericDensity = Threshold,
         dateDensity |-> dateDensity,
         numericDensity |-> numericDensity]

\* a slip: the densities are taken over the rows that have the cell
ColumnStatsPresentOnly(headers, rows, colIndex) ==
    LET numRows == Num(Cardinality({r \in 1..Len(rows) : colIndex < Len(rows[r])}))
        dateDensity == Div(Num(dateMatches(rows, colIndex)), numRows)
        numericDensity == Div(Num(numericMatches(rows, colIndex)), numRows)
    IN  [index |-> colIndex,
         header |-> At(headers, colIndex),
         isLikelyDate |-> Gt(dateDensity, Threshold),
         isLikelyNumeric |-> Gt(numericDensity, Threshold),
         dateDensity |-> dateDensity,
         numericDensity |-> numericDensity]

\* the ColumnMeta of one column
ColumnStats(headers, rows, colIndex) ==
    LET numRows == Num(Len(rows))
        dateDensity == Div(Num(dateMatches(rows, colIndex)), numRows)
        numericDensity == Div(Num(numericMatches(rows, colIndex)), numRows)
    IN  [index |-> colIndex,
         header |-> At(headers, colIndex),
         isLikelyDate |-> Gt(dateDensity, Threshold),
         isLikelyNumeric |-> Gt(numericDensity, Threshold),
         dateDensity |-> dateDensity,
         numericDensity |-> numericDensity]

\* headers.map((header, colIndex) => ...)
Stats(headers, rows) ==
    [k \in 1..Len(headers) |-> ColumnStats(headers, rows, k - 1)]

\* a slip: the sort call is missing, so the first candidate is taken
DateCandidatesUnsorted(stats) ==
    SelectSeq(stats, LAMBDA c : c.isLikelyDate)

\* [...stats].filter(s => s.isLikelyDate).sort((a, b) => b.dateDensity - a.dateDensity)
DateCandidates(stats) ==
    Sort(SelectSeq(stats, LAMBDA c : c.isLikelyDate), "dateDensityDesc")

\* !bestDate
NoBestDate(stats) == DateCandidates(stats) = <<>>

\* bestDate.index, for a bestDate that is not undefined
BestDateIndex(stats) == DateCandidates(stats)[1].index

\* a slip: the sort call is missing, so the first candidate is taken
MetricCandidatesUnsorted(stats) ==
    SelectSeq(stats, LAMBDA c : /\ c.isLikelyNumeric
                                /\ (NoBestDate(stats)
                                    \/ c.index # BestDateIndex(stats)))

\* a slip: the filter does not leave out the chosen date column
MetricCandidatesAny(stats) ==
    Sort(SelectSeq(stats, LAMBDA c : c.isLikelyNumeric), "numericDensityDesc")

\* [...stats].filter(s => s.isLikelyNumeric && (!bestDate || s.index !== bestDate.index))
\*           .sort((a, b) => b.numericDensity - a.numericDensity)
MetricCandidates(stats) ==
    Sort(SelectSeq(stats, LAMBDA c : /\ c.isLikelyNumeric
                                     /\ (NoBestDate(stats)
                                         \/ c.index # BestDateIndex(stats))),
         "numericDensityDesc")

\* !bestMetric
NoBestMetric(stats) == MetricCandidates(stats) = <<>>

\* bestMetric.index, for a bestMetric that is not undefined
BestMetricIndex(stats) == MetricCandidates(stats)[1].index

\* a slip: the two throw statements are in the other order
ProcessErrorMetricFirst(stats) ==
    IF NoBestMetric(stats) THEN ErrNoMetric
    ELSE IF NoBestDate(stats) THEN ErrNoDate
    ELSE Null

\* what processRawArray throws, Null when it does not throw
ProcessError(stats) ==
    IF NoBestDate(stats) THEN ErrNoDate
    ELSE IF NoBestMetric(stats) THEN ErrNoMetric
    ELSE Null

(***************************************************************************)
(* handleFinalConfirm: the series builder                                  *)
(***************************************************************************)
\* the point pushed for one row; `row` is a history field (the 0-based index
\* of the raw row) that no code reads
TempPoint(rows, r, dateCol, metricCol) ==
    LET ts  == DateOf[At(rows[r + 1], dateCol)]
        val == NumberOf[At(rows[r + 1], metricCol)]
    IN  [date |-> IsoDate(ts), value |-> val, timestamp |-> ts, row |-> r]

\* a slip: a row needs a parsable metric as well
KeepsRowWithValue(rows, r, dateCol, metricCol) ==
    /\ DateOf[At(rows[r + 1], dateCol)] # Null
    /\ NumberOf[At(rows[r + 1], metricCol)] # Null

\* if (ts !== null) tempPoints.push(...)
KeepsRow(rows, r, dateCol, metricCol) ==
    DateOf[At(rows[r + 1], dateCol)] # Null

RECURSIVE PushRows(_, _, _, _)
\* rawRows.forEach(row => {...}) over the first k rows
PushRows(rows, k, dateCol, metricCol) ==
    IF k = 0 THEN <<>>
    ELSE LET before == PushRows(rows, k - 1, dateCol, metricCol)
         IN  IF KeepsRow(rows, k - 1, dateCol, metricCol)
             THEN Append(before, TempPoint(rows, k - 1, dateCol, metricCol))
             ELSE before

\* a slip: the sort call is missing
UnsortedTempPoints(rows, dateCol, metricCol) ==
    PushRows(rows, Len(rows), dateCol, metricCol)

\* tempPoints after tempPoints.sort((a, b) => a.timestamp - b.timestamp)
SortedTempPoints(rows, dateCol, metricCol) ==
    Sort(PushRows(rows, Len(rows), dateCol, metricCol), "timestampAsc")

\* tempPoints.map((p, i) => ({ date: p.date, value: interpolated[i] }))
FinalData(tempPoints) ==
    LET values == interpolateValues([k \in 1..Len(tempPoints) |-> tempPoints[k].value])
    IN  [k \in 1..Len(tempPoints) |-> [date |-> tempPoints[k].date, value |-> values[k]]]

(***************************************************************************)
(* The component                                                           *)
(***************************************************************************)
NoCall == <<>>

\* historicalData: the empty array App starts with.  A dataset is written
\* by the handleDataLoaded call that loaded it and by its length
NoData == [load |-> 0, length |-> 0]

\* the useState initialiser of App
InitialState ==
    [historicalData |-> NoData,
     forecastResult |-> Null,
     loading |-> FALSE,
     error |-> Null,
     autoRefresh |-> FALSE,
     lastSync |-> Null,
     isSyncing |-> FALSE,
     sources |-> <<>>]

\* App after construction: no request in flight
AppInit ==
    /\ state = InitialState
    /\ isForecasting = FALSE
    /\ requests = <<>>
    /\ loads = 0

Init ==
    /\ stage = "UPLOAD"
    /\ error = Null
    /\ cleaningStatus = Null
    /\ rawHeaders = <<>>
    /\ rawRows = <<>>
    /\ columnMeta = <<>>
    /\ selectedDateCol = 0 - 1
    /\ selectedMetricCol = 0 - 1
    /\ reading = <<>>
    /\ uploads = 0
    /\ processed = <<>>
    /\ emitted = NoCall
    /\ data = <<>>
    /\ interpolated = <<>>
    /\ reinterpolated = <<>>
    /\ ipc = "idle"
    /\ AppInit

Remove(seq, k) == SubSeq(seq, 1, k - 1) \o SubSeq(seq, k + 1, Len(seq))

\* String(h || '').trim()
HeaderText(h) == IF Falsy(h) THEN <<>> ELSE Trim(h)

\* cell === null || cell === undefined ? '' : String(cell).trim()
CellText(cell) == IF cell = Null \/ cell = Undefined THEN <<>> ELSE Trim(cell)

\* handleFileChange: the user picks a file in the upload stage
HandleFileChange ==
    /\ stage = "UPLOAD"
    /\ uploads < MaxUploads
    /\ cleaningStatus' = StatusStreaming
    /\ \/ \E file \in {CorruptFile, SheetFile(<<>>)} :
              reading' = Append(reading, file)
       \/ \E nc \in 1..MaxCols, nr \in 0..MaxRows :
              /\ nc * nr <= MaxCells
              /\ \E t \in Tables(nc, nr) :
                     reading' = Append(reading,
                                       SheetFile(<<SubSeq(HeaderLabels, 1, nc)>> \o t))
    /\ uploads' = uploads + 1
    /\ emitted' = NoCall
    /\ UNCHANGED <<stage, error, rawHeaders, rawRows, columnMeta,
                   selectedDateCol, selectedMetricCol, processed>>
    /\ UNCHANGED interpVars
    /\ UNCHANGED appVars

\* handleFileChange, with the file drawn over the second alphabet
HandleFileChangeEpoch ==
    /\ stage = "UPLOAD"
    /\ uploads < MaxUploads
    /\ cleaningStatus' = StatusStreaming
    /\ \/ \E file \in {CorruptFile, SheetFile(<<>>)} :
              reading' = Append(reading, file)
       \/ \E nc \in 1..MaxCols, nr \in 0..MaxRows :
              /\ nc * nr <= MaxCells
              /\ \E t \in EpochTables(nc, nr) :
                     reading' = Append(reading,
                                       SheetFile(<<SubSeq(HeaderLabels, 1, nc)>> \o t))
    /\ uploads' = uploads + 1
    /\ emitted' = NoCall
    /\ UNCHANGED <<stage, error, rawHeaders, rawRows, columnMeta,
                   selectedDateCol, selectedMetricCol, processed>>
    /\ UNCHANGED interpVars
    /\ UNCHANGED appVars

\* handleFileChange for a given file: the status and the read in flight
Picked(file) ==
    /\ stage = "UPLOAD"
    /\ cleaningStatus' = StatusStreaming
    /\ reading' = Append(reading, file)
    /\ uploads' = uploads + 1
    /\ emitted' = NoCall
    /\ UNCHANGED <<stage, error, rawHeaders, rawRows, columnMeta,
                   selectedDateCol, selectedMetricCol, processed>>
    /\ UNCHANGED interpVars
    /\ UNCHANGED appVars

\* handleFileChange, with a sheet whose rows may be shorter than its header
HandleFileChangeRagged ==
    /\ uploads < MaxUploads
    /\ \E nc \in 1..MaxCols, nr \in 0..MaxRows :
          /\ nc * nr <= MaxCells
          /\ \E t \in RaggedTables(nc, nr) :
                 Picked(SheetFile(<<SubSeq(HeaderLabels, 1, nc)>> \o t))

\* handleFileChange, with a sheet of up to TallRows full rows
HandleFileChangeTall ==
    /\ uploads < MaxUploads
    /\ \E nc \in 1..MaxCols, nr \in 0..TallRows :
          \E t \in TallTables(nc, nr) :
              Picked(SheetFile(<<SubSeq(HeaderLabels, 1, nc)>> \o t))

\* handleFileChange, up to MaxReloads times, with a small file
HandleFileChangeAgain ==
    /\ uploads < MaxReloads
    /\ \/ \E file \in {CorruptFile, SheetFile(<<>>)} : Picked(file)
       \/ \E nc \in 1..MaxCols, nr \in 0..1 :
              \E t \in ShortTables(nc, nr) :
                  Picked(SheetFile(<<SubSeq(HeaderLabels, 1, nc)>> \o t))

\* a slip: the catch block also sends the component back to the upload stage
FailToUpload(message) ==
    /\ error' = message
    /\ cleaningStatus' = Null
    /\ stage' = "UPLOAD"
    /\ UNCHANGED <<rawHeaders, rawRows, columnMeta,
                   selectedDateCol, selectedMetricCol>>

\* the catch block of reader.onload
Fail(message) ==
    /\ error' = message
    /\ cleaningStatus' = Null
    /\ UNCHANGED <<stage, rawHeaders, rawRows, columnMeta,
                   selectedDateCol, selectedMetricCol>>

\* a slip: a selection already made is kept when a new table is profiled
processRawArrayKeepsSelection(headers, rows) ==
    LET stats == Stats(headers, rows)
    IN  IF ProcessError(stats) # Null
        THEN Fail(ProcessError(stats))
        ELSE /\ error' = Null
             /\ rawHeaders' = headers
             /\ rawRows' = rows
             /\ columnMeta' = stats
             /\ selectedDateCol' = IF selectedDateCol = -1 THEN BestDateIndex(stats)
                                   ELSE selectedDateCol
             /\ selectedMetricCol' = IF selectedMetricCol = -1 THEN BestMetricIndex(stats)
                                     ELSE selectedMetricCol
             /\ stage' = "VERIFY"
             /\ cleaningStatus' = Null

\* processRawArray(headers, rows), called inside the try block of
\* reader.onload; the status "Analyzing schema..." it sets first is cleared
\* again before the handler returns, on both paths
processRawArray(headers, rows) ==
    LET stats == Stats(headers, rows)
    IN  IF ProcessError(stats) # Null
        THEN Fail(ProcessError(stats))
        ELSE /\ error' = Null
             /\ rawHeaders' = headers
             /\ rawRows' = rows
             /\ columnMeta' = stats
             /\ selectedDateCol' = BestDateIndex(stats)
             /\ selectedMetricCol' = BestMetricIndex(stats)
             /\ stage' = "VERIFY"
             /\ cleaningStatus' = Null

\* a slip: the test rows.length < 2 is missing.  rows[0].map then throws a
\* TypeError on a sheet without any row, and a sheet of one row reaches
\* processRawArray with numRows = 0
ReaderOnloadNoSizeCheck(k) ==
    /\ k \in 1..Len(reading)
    /\ LET file == reading[k]
           rows == file.sheet
       IN  /\ processed' = <<file>>
           /\ IF ~file.valid THEN Fail(ErrProcess)
              ELSE IF Len(rows) < 1 THEN Fail(Msg("TypeError"))
              ELSE processRawArray(
                      [c \in 1..Len(rows[1]) |-> HeaderText(rows[1][c])],
                      [r \in 1..Len(rows) - 1 |->
                          [c \in 1..Len(rows[r + 1]) |-> CellText(rows[r + 1][c])]])
    /\ reading' = Remove(reading, k)
    /\ emitted' = NoCall
    /\ UNCHANGED uploads
    /\ UNCHANGED interpVars
    /\ UNCHANGED appVars

\* reader.onload of the k-th read in flight
ReaderOnload(k) ==
    /\ k \in 1..Len(reading)
    /\ LET file == reading[k]
           rows == file.sheet
       IN  /\ processed' = <<file>>
           /\ IF ~file.valid THEN Fail(ErrProcess)
              ELSE IF Len(rows) < 2 THEN Fail(ErrTooSmall)
              ELSE processRawArray(
                      [c \in 1..Len(rows[1]) |-> HeaderText(rows[1][c])],
                      [r \in 1..Len(rows) - 1 |->
                          [c \in 1..Len(rows[r + 1]) |-> CellText(rows[r + 1][c])]])
    /\ reading' = Remove(reading, k)
    /\ emitted' = NoCall
    /\ UNCHANGED uploads
    /\ UNCHANGED interpVars
    /\ UNCHANGED appVars

\* reader.onerror of the k-th read in flight
ReaderOnerror(k) ==
    /\ k \in 1..Len(reading)
    /\ error' = ErrRead
    /\ cleaningStatus' = Null
    /\ reading' = Remove(reading, k)
    /\ emitted' = NoCall
    /\ UNCHANGED <<stage, rawHeaders, rawRows, columnMeta, selectedDateCol,
                   selectedMetricCol, uploads, processed>>
    /\ UNCHANGED interpVars
    /\ UNCHANGED appVars

\* a slip: the filter is missing, so the date select lists every column
DateOptionsAll == {columnMeta[k].index : k \in 1..Len(columnMeta)}

\* the options of the date select
DateOptions ==
    {m.index : m \in {c \in {columnMeta[k] : k \in 1..Len(columnMeta)} :
                          c.isLikelyDate}}

\* the options of the metric select
MetricOptions ==
    {m.index : m \in {c \in {columnMeta[k] : k \in 1..Len(columnMeta)} :
                          c.isLikelyNumeric /\ c.index # selectedDateCol}}

Min(set) == CHOOSE x \in set : \A y \in set : x <= y

\* what a select shows: its value when that is an option, else its first option
Shown(options, value) == IF value \in options THEN value ELSE Min(options)

\* onChange of the date select: the user picks another option
SelectDateCol(c) ==
    /\ stage = "VERIFY"
    /\ c \in DateOptions
    /\ c # Shown(DateOptions, selectedDateCol)
    /\ selectedDateCol' = c
    /\ emitted' = NoCall
    /\ UNCHANGED <<stage, error, cleaningStatus, rawHeaders, rawRows, columnMeta,
                   selectedMetricCol, reading, uploads, processed>>
    /\ UNCHANGED interpVars
    /\ UNCHANGED appVars

\* onChange of the metric select: the user picks another option
SelectMetricCol(c) ==
    /\ stage = "VERIFY"
    /\ c \in MetricOptions
    /\ c # Shown(MetricOptions, selectedMetricCol)
    /\ selectedMetricCol' = c
    /\ emitted' = NoCall
    /\ UNCHANGED <<stage, error, cleaningStatus, rawHeaders, rawRows, columnMeta,
                   selectedDateCol, reading, uploads, processed>>
    /\ UNCHANGED interpVars
    /\ UNCHANGED appVars

\* handleFinalConfirm: the confirm button of the verify stage.  The button
\* is disabled while the isLoading prop is true; the prop is taken as false.
HandleFinalConfirm ==
    /\ stage = "VERIFY"
    /\ cleaningStatus' = StatusCleansing
    /\ LET tempPoints == SortedTempPoints(rawRows, selectedDateCol, selectedMetricCol)
       IN  emitted' = <<[tempPoints |-> tempPoints, finalData |-> FinalData(tempPoints)]>>
    /\ UNCHANGED <<stage, error, rawHeaders, rawRows, columnMeta, selectedDateCol,
                   selectedMetricCol, reading, uploads, processed>>
    /\ UNCHANGED interpVars
    /\ UNCHANGED appVars

\* the Purge Upload button of the verify stage
PurgeUpload ==
    /\ stage = "VERIFY"
    /\ stage' = "UPLOAD"
    /\ emitted' = NoCall
    /\ UNCHANGED <<error, cleaningStatus, rawHeaders, rawRows, columnMeta,
                   selectedDateCol, selectedMetricCol, reading, uploads, processed>>
    /\ UNCHANGED interpVars
    /\ UNCHANGED appVars

Next ==
    \/ HandleFileChange
    \/ \E k \in 1..MaxUploads : ReaderOnload(k)
    \/ \E k \in 1..MaxUploads : ReaderOnerror(k)
    \/ \E c \in 0..MaxCols - 1 : SelectDateCol(c)
    \/ \E c \in 0..MaxCols - 1 : SelectMetricCol(c)
    \/ HandleFinalConfirm
    \/ PurgeUpload

Spec == Init /\ [][Next]_vars

\* the component fed with files over the second alphabet
NextEpoch ==
    \/ HandleFileChangeEpoch
    \/ \E k \in 1..MaxUploads : ReaderOnload(k)
    \/ \E k \in 1..MaxUploads : ReaderOnerror(k)
    \/ \E c \in 0..MaxCols - 1 : SelectDateCol(c)
    \/ \E c \in 0..MaxCols - 1 : SelectMetricCol(c)
    \/ HandleFinalConfirm
    \/ PurgeUpload

SpecEpoch == Init /\ [][NextEpoch]_vars

\* the component fed with sheets whose rows may be short
NextRagged ==
    \/ HandleFileChangeRagged
    \/ \E k \in 1..MaxUploads : ReaderOnload(k)
    \/ \E k \in 1..MaxUploads : ReaderOnerror(k)
    \/ \E c \in 0..MaxCols - 1 : SelectDateCol(c)
    \/ \E c \in 0..MaxCols - 1 : SelectMetricCol(c)
    \/ HandleFinalConfirm
    \/ PurgeUpload

SpecRagged == Init /\ [][NextRagged]_vars

\* the component fed with tall sheets
NextTall ==
    \/ HandleFileChangeTall
    \/ \E k \in 1..MaxUploads : ReaderOnload(k)
    \/ \E k \in 1..MaxUploads : ReaderOnerror(k)
    \/ \E c \in 0..MaxCols - 1 : SelectDateCol(c)
    \/ \E c \in 0..MaxCols - 1 : SelectMetricCol(c)
    \/ HandleFinalConfirm
    \/ PurgeUpload

SpecTall == Init /\ [][NextTall]_vars

\* the component with several uploads, their reads completing in any order
NextReload ==
    \/ HandleFileChangeAgain
    \/ \E k \in 1..MaxReloads : ReaderOnload(k)
    \/ \E k \in 1..MaxReloads : ReaderOnerror(k)
    \/ \E c \in 0..MaxCols - 1 : SelectDateCol(c)
    \/ \E c \in 0..MaxCols - 1 : SelectMetricCol(c)
    \/ HandleFinalConfirm
    \/ PurgeUpload

SpecReload == Init /\ [][NextReload]_vars

(***************************************************************************)
(* App (src/App.tsx): the loaded dataset, the forecast request and the     *)
(* flags around it.  A handler runs to its first await in one step; the    *)
(* render that follows it, with effect 2, is part of that step.  The rest  *)
(* of runEngine runs when its request settles.                             *)
(***************************************************************************)
MaxLoads == 3

MaxPoints == 3

ErrEngine ==
    Msg("Contest engine failed. Validate data schema or check API connectivity.")

\* new Date()
Now == Msg("Date")

\* the ForecastResponse of a request, written by the dataset it was sent with
ForecastResponse(d) == <<"ForecastResponse", d.load, d.length>>

\* what a handler of App reads and writes
Current == [state |-> state, isForecasting |-> isForecasting, requests |-> requests]

\* a slip: the test of isForecastingRef.current is missing
runEngineNoGuard(app, d) ==
    [state |-> [app.state EXCEPT !.loading = TRUE, !.isSyncing = TRUE,
                                 !.error = Null],
     isForecasting |-> TRUE,
     requests |-> Append(app.requests, d)]

\* runEngine(data) up to its await: the early return, the flag, the first
\* setState and the call of forecastService.runForecastingContest
runEngine(app, d) ==
    IF app.isForecasting THEN app
    ELSE [state |-> [app.state EXCEPT !.loading = TRUE, !.isSyncing = TRUE,
                                      !.error = Null],
          isForecasting |-> TRUE,
          requests |-> Append(app.requests, d)]

\* effect 2, which runs after a render that changed historicalData.length or
\* autoRefresh
Effect2(app) ==
    IF /\ \/ app.state.historicalData.length # state.historicalData.length
          \/ app.state.autoRefresh # state.autoRefresh
       /\ app.state.autoRefresh
       /\ app.state.historicalData.length > 0
       /\ ~app.state.loading
       /\ ~app.isForecasting
    THEN runEngine(app, app.state.historicalData)
    ELSE app

\* the render after a handler, with its effects
Render(app) ==
    LET after == Effect2(app)
    IN  /\ state' = after.state
        /\ isForecasting' = after.isForecasting
        /\ requests' = after.requests

\* handleDataLoaded(data), called by FileUpload and WebDataSearch
HandleDataLoaded(length) ==
    /\ loads < MaxLoads
    /\ LET d == [load |-> loads + 1, length |-> length]
           loaded == [Current EXCEPT !.state =
                         [state EXCEPT !.historicalData = d,
                                       !.forecastResult = Null,
                                       !.error = Null,
                                       !.lastSync = Now,
                                       !.loading = FALSE,
                                       !.sources = <<>>]]
       IN  Render(runEngine(loaded, d))
    /\ loads' = loads + 1
    /\ UNCHANGED uploadVars
    /\ UNCHANGED interpVars

\* the Retry button, shown while state.error is set
Retry ==
    /\ state.error # Null
    /\ Render(runEngine(Current, state.historicalData))
    /\ UNCHANGED loads
    /\ UNCHANGED uploadVars
    /\ UNCHANGED interpVars

\* the Autonomous Sync switch
ToggleAutoRefresh ==
    /\ Render([Current EXCEPT !.state.autoRefresh = ~@])
    /\ UNCHANGED loads
    /\ UNCHANGED uploadVars
    /\ UNCHANGED interpVars

\* a tick of the interval of effect 1: one point more
Pulse ==
    /\ state.autoRefresh
    /\ state.historicalData.length > 0
    /\ state.historicalData.length < MaxPoints
    /\ Render([Current EXCEPT !.state.historicalData.length = @ + 1])
    /\ UNCHANGED loads
    /\ UNCHANGED uploadVars
    /\ UNCHANGED interpVars

\* the k-th request in flight resolves: the try block and the finally block
RequestSucceeds(k) ==
    /\ k \in 1..Len(requests)
    /\ Render([state |-> [state EXCEPT !.forecastResult = ForecastResponse(requests[k]),
                                       !.loading = FALSE,
                                       !.isSyncing = FALSE,
                                       !.error = Null,
                                       !.lastSync = Now],
               isForecasting |-> FALSE,
               requests |-> Remove(requests, k)])
    /\ UNCHANGED loads
    /\ UNCHANGED uploadVars
    /\ UNCHANGED interpVars

\* the k-th request in flight rejects: the catch block and the finally block
RequestFails(k) ==
    /\ k \in 1..Len(requests)
    /\ Render([state |-> [state EXCEPT !.loading = FALSE,
                                       !.isSyncing = FALSE,
                                       !.error = ErrEngine],
               isForecasting |-> FALSE,
               requests |-> Remove(requests, k)])
    /\ UNCHANGED loads
    /\ UNCHANGED uploadVars
    /\ UNCHANGED interpVars

NextApp ==
    \/ \E length \in 1..MaxPoints : HandleDataLoaded(length)
    \/ Retry
    \/ ToggleAutoRefresh
    \/ Pulse
    \/ \E k \in 1..MaxLoads : RequestSucceeds(k)
    \/ \E k \in 1..MaxLoads : RequestFails(k)

SpecApp == Init /\ [][NextApp]_vars

(***************************************************************************)
(* interpolateValues on its own: every input up to MaxLen entries          *)
(***************************************************************************)
MaxLen == 4

Values == {Num(0), Num(1), Num(7)}

Inputs == UNION {[1..n -> Values \cup {Null}] : n \in 0..MaxLen}

InitInterp ==
    /\ stage = "UPLOAD"
    /\ error = Null
    /\ cleaningStatus = Null
    /\ rawHeaders = <<>>
    /\ rawRows = <<>>
    /\ columnMeta = <<>>
    /\ selectedDateCol = 0 - 1
    /\ selectedMetricCol = 0 - 1
    /\ reading = <<>>
    /\ uploads = 0
    /\ processed = <<>>
    /\ emitted = NoCall
    /\ data \in Inputs
    /\ interpolated = <<>>
    /\ reinterpolated = <<>>
    /\ ipc = "input"
    /\ AppInit

\* interpolated = interpolateValues(data)
Interpolate ==
    /\ ipc = "input"
    /\ interpolated' = interpolateValues(data)
    /\ ipc' = "once"
    /\ UNCHANGED <<data, reinterpolated>>
    /\ UNCHANGED uploadVars
    /\ UNCHANGED appVars

\* reinterpolated = interpolateValues(interpolated)
Reinterpolate ==
    /\ ipc = "once"
    /\ reinterpolated' = interpolateValues(interpolated)
    /\ ipc' = "twice"
    /\ UNCHANGED <<data, interpolated>>
    /\ UNCHANGED uploadVars
    /\ UNCHANGED appVars

NextInterp == Interpolate \/ Reinterpolate

SpecInterp == InitInterp /\ [][NextInterp]_vars

(***************************************************************************)
(* Properties of interpolateValues (specification SpecInterp)              *)
(***************************************************************************)
Interpolated == ipc \in {"once", "twice"}

\* the 0-based positions of the input that hold a number
Known == {k \in 0..Len(data) - 1 : At(data, k) # Null}

KnownBefore(i) == {k \in Known : k < i}

KnownAfter(i) == {k \in Known : k > i}

Max(set) == CHOOSE x \in set : \A y \in set : x >= y

Gaps == {i \in 0..Len(data) - 1 : At(data, i) = Null}

\* C3: interpolateValues returns a sequence of the input's length that holds
\* no null.
C3_SameLengthNoNull ==
    Interpolated =>
        /\ Len(interpolated) = Len(data)
        /\ \A k \in 1..Len(interpolated) : interpolated[k] # Null

C3_Witness ==
    /\ ipc = "once"
    /\ Len(data) = MaxLen
    /\ Gaps # {} /\ Known # {}
    /\ At(data, Len(data) - 1) = Null
    /\ \A k \in 1..Len(interpolated) : interpolated[k] # Null

C5_TrailingCarriesForward ==
    Interpolated =>
        \A i \in Gaps :
            (KnownBefore(i) # {} /\ KnownAfter(i) = {}) =>
                At(interpolated, i) = At(data, Max(Known))

C5_Witness ==
    /\ ipc = "once"
    /\ \E i \in Gaps :
          /\ i + 1 \in Gaps
          /\ i - 1 \in Known
          /\ KnownAfter(i) = {}
          /\ At(data, i - 1) # Num(0)
          /\ At(interpolated, i + 1) = At(data, i - 1)

\* C6: a null with a known input entry after it and none before it (a leading
\* gap) becomes the first known input entry, at every position of the run.
C6_LeadingCarriesBackward ==
    Interpolated =>
        \A i \in Gaps :
            (KnownBefore(i) = {} /\ KnownAfter(i) # {}) =>
                At(interpolated, i) = At(data, Min(Known))

C6_Witness ==
    /\ ipc = "once"
    /\ 0 \in Gaps /\ 1 \in Gaps /\ 2 \in Known
    /\ At(data, 2) # Num(0)
    /\ At(interpolated, 0) = At(data, 2)

\* C7: when every input entry is null, every output entry is 0.
C7_AllNullGivesZero ==
    (Interpolated /\ Known = {}) =>
        /\ Len(interpolated) = Len(data)
        /\ \A k \in 1..Len(interpolated) : interpolated[k] = Num(0)

C7_Witness ==
    /\ ipc = "once"
    /\ Len(data) = 1
    /\ Known = {}
    /\ interpolated = <<Num(0)>>

\* C8: interpolateValues is idempotent: run on its own output it returns that
\* output, entry by entry.
C8_Idempotent ==
    ipc = "twice" => reinterpolated = interpolated

C8_Witness ==
    /\ ipc = "twice"
    /\ Cardinality(Gaps) >= 2 /\ Known # {}
    /\ reinterpolated = interpolated
    /\ interpolated # data

(***************************************************************************)
(* Properties of the upload pipeline (specification Spec)                  *)
(***************************************************************************)
Confirmed == emitted # NoCall

\* the series handed to onDataLoaded by the latest step
finalData == emitted[1].finalData

\* tempPoints of the latest handleFinalConfirm, after its sort
tempPoints == emitted[1].tempPoints

\* the data rows of the sheet handed to the latest reader.onload, as
\* processRawArray receives them
ProcessedRows ==
    LET rows == processed[1].sheet
    IN  [r \in 1..Len(rows) - 1 |->
            [c \in 1..Len(rows[r + 1]) |-> CellText(rows[r + 1][c])]]

ProcessedCols == 0..Len(processed[1].sheet[1]) - 1

\* the date-parse success rate of a column: the share of rows whose cell
\* tryParseDate accepts
DateRate(rows, c) ==
    Rat(Cardinality({r \in 1..Len(rows) : tryParseDate(At(rows[r], c)) # Null}),
        Len(rows))

\* the numeric-parse success rate of a column
NumericRate(rows, c) ==
    Rat(Cardinality({r \in 1..Len(rows) : cleanNumericString(At(rows[r], c)) # Null}),
        Len(rows))

\* a table of at least 2 rows with a date column and a distinct numeric column
Eligible(rows, cols) ==
    /\ Len(rows) >= 2
    /\ \E d \in cols, m \in cols :
          /\ d # m
          /\ Gt(DateRate(rows, d), Rat(4, 10))
          /\ Gt(NumericRate(rows, m), Rat(4, 10))

\* C1: for every table of at least 2 rows with a column whose date-parse rate
\* exceeds 0.4 and another column whose numeric-parse rate exceeds 0.4,
\* processRawArray does not fail, it selects a date column and a different
\* metric column, and a confirm delivers a non-empty series.
C1_EligibleTableIsAccepted ==
    (/\ processed # <<>>
     /\ processed[1].valid
     /\ Len(processed[1].sheet) >= 2
     /\ Eligible(ProcessedRows, ProcessedCols)) =>
        /\ error = Null
        /\ rawRows = ProcessedRows
        /\ selectedDateCol \in ProcessedCols
        /\ selectedMetricCol \in ProcessedCols
        /\ Confirmed => Len(finalData) > 0

\* C2: every series handed to onDataLoaded is non-decreasing by date.
C2_SeriesSortedByDate ==
    Confirmed =>
        \A i \in 1..Len(finalData), j \in 1..Len(finalData) :
            i < j => finalData[i].date <= finalData[j].date

C2_Witness ==
    /\ Confirmed
    /\ \E k \in 1..Len(tempPoints) - 1 :
          /\ tempPoints[k].row > tempPoints[k + 1].row
          /\ finalData[k].date < finalData[k + 1].date

\* the 0-based indices of the raw rows whose selected date cell parses
DatedRows ==
    {r \in 0..Len(rawRows) - 1 :
        tryParseDate(At(rawRows[r + 1], selectedDateCol)) # Null}

\* C9: the series holds exactly one entry per raw row whose selected date cell
\* parses: rows without a parsable date are dropped, rows without a parsable
\* metric are kept, rows of one calendar day stay separate entries; so its
\* length is the number of date-parsable rows, at most the raw row count.
C9_OneEntryPerDatedRow ==
    Confirmed =>
        /\ Len(finalData) = Cardinality(DatedRows)
        /\ Len(finalData) <= Len(rawRows)
        /\ Len(tempPoints) = Len(finalData)
        /\ {tempPoints[k].row : k \in 1..Len(tempPoints)} = DatedRows
        /\ \A i \in 1..Len(tempPoints), j \in 1..Len(tempPoints) :
              tempPoints[i].row = tempPoints[j].row => i = j

C9_Witness ==
    /\ Confirmed
    /\ Len(finalData) < Len(rawRows)
    /\ \E k \in 1..Len(tempPoints) : tempPoints[k].value = Null
    /\ \E i \in 1..Len(finalData), j \in 1..Len(finalData) :
          /\ i # j
          /\ finalData[i].date = finalData[j].date
          /\ tempPoints[i].timestamp # tempPoints[j].timestamp

\* C10: two rows with the same parsed timestamp keep their raw order in the
\* series, and each entry carries the date and the metric value (or gap) of
\* its own row.
C10_StableAndAttached ==
    Confirmed =>
        /\ \A i \in 1..Len(tempPoints), j \in 1..Len(tempPoints) :
              (i < j /\ tempPoints[i].timestamp = tempPoints[j].timestamp) =>
                  tempPoints[i].row < tempPoints[j].row
        /\ \A k \in 1..Len(tempPoints) :
              LET row == rawRows[tempPoints[k].row + 1]
                  ts  == tryParseDate(At(row, selectedDateCol))
                  val == cleanNumericString(At(row, selectedMetricCol))
              IN  /\ tempPoints[k].timestamp = ts
                  /\ tempPoints[k].value = val
                  /\ finalData[k].date = IsoDate(ts)
                  /\ val # Null => finalData[k].value = val

C10_Witness ==
    /\ Confirmed
    /\ \E i \in 1..Len(tempPoints), j \in 1..Len(tempPoints) :
          /\ i < j
          /\ tempPoints[i].timestamp = tempPoints[j].timestamp
          /\ tempPoints[i].value # tempPoints[j].value
          /\ tempPoints[i].value # Null
          /\ tempPoints[i].row < tempPoints[j].row
    /\ \E k \in 1..Len(tempPoints) - 1 : tempPoints[k].row > tempPoints[k + 1].row

(***************************************************************************)
(* Properties of the column profiler, the column selector and the confirm  *)
(* step (specification SpecEpoch)                                          *)
(***************************************************************************)
\* the step is a reader.onload: a read leaves `reading`, and the error is not
\* the one reader.onerror sets
Loaded == Len(reading') < Len(reading) /\ error' # ErrRead

\* the step is a reader.onload in which processRawArray ran to its end
AutoSelected == Loaded /\ error' = Null

\* the 0-based column indices of a profile
ColumnsOf(meta) == 0..Len(meta) - 1

DateScore(meta, c) == meta[c + 1].dateDensity

NumericScore(meta, c) == meta[c + 1].numericDensity

\* the columns of a profile whose date score exceeds 0.4
DateCandidateCols(meta) ==
    {c \in ColumnsOf(meta) : Gt(DateScore(meta, c), Rat(4, 10))}

\* the columns of a profile whose numeric score exceeds 0.4
NumericCandidateCols(meta) ==
    {c \in ColumnsOf(meta) : Gt(NumericScore(meta, c), Rat(4, 10))}

\* the lowest index among the date candidates of maximum date score
LeftmostBestDate(meta) ==
    Min({c \in DateCandidateCols(meta) :
            \A o \in DateCandidateCols(meta) :
                ~Gt(DateScore(meta, o), DateScore(meta, c))})

\* the lowest index among the numeric candidates other than column d of
\* maximum numeric score
LeftmostBestMetric(meta, d) ==
    Min({c \in NumericCandidateCols(meta) \ {d} :
            \A o \in NumericCandidateCols(meta) \ {d} :
                ~Gt(NumericScore(meta, o), NumericScore(meta, c))})

\* C11: the date column stored by automatic selection is a function of the
\* profile: among the date candidates it has the maximum date score, and
\* among those of maximum score the lowest column index.
C11_DateColumnLeftmostBest ==
    [][AutoSelected => selectedDateCol' = LeftmostBestDate(columnMeta')]_vars

C11_Witness ==
    /\ stage = "VERIFY"
    /\ emitted = NoCall
    /\ selectedDateCol = LeftmostBestDate(columnMeta)
    /\ \E o \in DateCandidateCols(columnMeta) :
          /\ o > selectedDateCol
          /\ DateScore(columnMeta, o) = DateScore(columnMeta, selectedDateCol)
    /\ \E l \in DateCandidateCols(columnMeta) :
          /\ l < selectedDateCol
          /\ Gt(DateScore(columnMeta, selectedDateCol), DateScore(columnMeta, l))

\* C12: the metric column stored by automatic selection has, among the
\* numeric candidates other than the chosen date column, the maximum numeric
\* score, and among those of maximum score the lowest column index.
C12_MetricColumnLeftmostBest ==
    [][AutoSelected =>
          selectedMetricCol' = LeftmostBestMetric(columnMeta', selectedDateCol')]_vars

C12_Witness ==
    /\ stage = "VERIFY"
    /\ emitted = NoCall
    /\ selectedDateCol = LeftmostBestDate(columnMeta)
    /\ selectedMetricCol = LeftmostBestMetric(columnMeta, selectedDateCol)
    /\ selectedDateCol < selectedMetricCol
    /\ Gt(NumericScore(columnMeta, selectedDateCol),
          NumericScore(columnMeta, selectedMetricCol))
    /\ \E o \in NumericCandidateCols(columnMeta) :
          /\ o > selectedMetricCol
          /\ NumericScore(columnMeta, o) = NumericScore(columnMeta, selectedMetricCol)

\* C13: whenever automatic selection succeeds, the stored date column and
\* metric column are different columns of the table, the share of rows of the
\* date column that parse as a date exceeds 0.4, and the share of rows of the
\* metric column that parse as a number exceeds 0.4.
C13_AutoSelectionValid ==
    [][AutoSelected =>
          LET d == selectedDateCol'
              m == selectedMetricCol'
          IN  /\ stage' = "VERIFY"
              /\ d # m
              /\ d \in ColumnsOf(columnMeta')
              /\ m \in ColumnsOf(columnMeta')
              /\ Len(columnMeta') = Len(rawHeaders')
              /\ columnMeta'[d + 1].isLikelyDate
              /\ columnMeta'[m + 1].isLikelyNumeric
              /\ Gt(DateRate(rawRows', d), Rat(4, 10))
              /\ Gt(NumericRate(rawRows', m), Rat(4, 10))]_vars

C13_Witness ==
    /\ stage = "VERIFY"
    /\ emitted = NoCall
    /\ Len(rawRows) = MaxRows
    /\ selectedDateCol = LeftmostBestDate(columnMeta)
    /\ selectedMetricCol = LeftmostBestMetric(columnMeta, selectedDateCol)
    /\ selectedDateCol # selectedMetricCol
    /\ selectedMetricCol \in DateCandidateCols(columnMeta)
    /\ Gt(NumericRate(rawRows, selectedDateCol), NumericRate(rawRows, selectedMetricCol))
    /\ Gt(NumericRate(rawRows, selectedMetricCol), Rat(4, 10))

\* the data rows of a sheet, as reader.onload hands them to processRawArray
RowsOf(file) ==
    [r \in 1..Len(file.sheet) - 1 |->
        [c \in 1..Len(file.sheet[r + 1]) |-> CellText(file.sheet[r + 1][c])]]

\* the header labels of a sheet, as reader.onload hands them on
HeadersOf(file) ==
    [c \in 1..Len(file.sheet[1]) |-> HeaderText(file.sheet[1][c])]

ColsOf(file) == 0..Len(file.sheet[1]) - 1

\* a file that opens and has a header row and at least one data row
HasDataRows(file) == file.valid /\ Len(file.sheet) >= 2

\* no column of the sheet has a date-parse rate above 0.4
NoDateCandidate(file) ==
    \A c \in ColsOf(file) : ~Gt(DateRate(RowsOf(file), c), Rat(4, 10))

\* no column of the sheet has a numeric-parse rate above 0.4
NoNumericCandidate(file) ==
    \A c \in ColsOf(file) : ~Gt(NumericRate(RowsOf(file), c), Rat(4, 10))

\* the state the failed upload leaves alone
KeepsSelection ==
    UNCHANGED <<stage, rawHeaders, rawRows, columnMeta, selectedDateCol,
                selectedMetricCol>>

\* C14: when no column of the table is a date candidate, processRawArray
\* fails with the no-date-column error, also when no column is a numeric
\* candidate either, and stores nothing.
C14_NoDateColumnFirst ==
    [][(/\ Loaded
        /\ HasDataRows(processed'[1])
        /\ NoDateCandidate(processed'[1])) =>
          /\ error' = ErrNoDate
          /\ cleaningStatus' = Null
          /\ KeepsSelection]_vars

C14_Witness ==
    /\ processed # <<>>
    /\ reading = <<>>
    /\ HasDataRows(processed[1])
    /\ Cardinality(ColsOf(processed[1])) >= 2
    /\ NoDateCandidate(processed[1])
    /\ NoNumericCandidate(processed[1])
    /\ error = ErrNoDate
    /\ stage = "UPLOAD"

\* the profile processRawArray computes for a sheet
ProfileOf(file) == Stats(HeadersOf(file), RowsOf(file))

\* the sheet has a date column to choose, and outside the chosen one no
\* column has a numeric-parse rate above 0.4
DateButNoMetric(file) ==
    /\ DateCandidateCols(ProfileOf(file)) # {}
    /\ \A c \in ColsOf(file) \ {LeftmostBestDate(ProfileOf(file))} :
          ~Gt(NumericRate(RowsOf(file), c), Rat(4, 10))

\* C15: when a date column is chosen and no column other than the chosen one
\* is a numeric candidate, processRawArray fails with the no-metric-column
\* error and stores nothing.
C15_NoMetricColumn ==
    [][(/\ Loaded
        /\ HasDataRows(processed'[1])
        /\ DateButNoMetric(processed'[1])) =>
          /\ error' = ErrNoMetric
          /\ cleaningStatus' = Null
          /\ KeepsSelection]_vars

C15_Witness ==
    /\ processed # <<>>
    /\ reading = <<>>
    /\ HasDataRows(processed[1])
    /\ DateButNoMetric(processed[1])
    /\ Gt(NumericRate(RowsOf(processed[1]), LeftmostBestDate(ProfileOf(processed[1]))),
          Rat(4, 10))
    /\ \E c \in ColsOf(processed[1]) :
          \A r \in 1..Len(RowsOf(processed[1])) : At(RowsOf(processed[1])[r], c) = <<>>
    /\ error = ErrNoMetric
    /\ stage = "UPLOAD"

\* C16: for every column the profiled date score is the share of rows whose
\* cell tryParseDate accepts and the profiled numeric score is the share of
\* rows whose cell cleanNumericString accepts; so the rows a confirm keeps
\* are the rows the profiler counted for the selected date column.
C16_ScoresAreParseRates ==
    stage = "VERIFY" =>
        /\ \A c \in ColumnsOf(columnMeta) :
              /\ DateScore(columnMeta, c) = DateRate(rawRows, c)
              /\ NumericScore(columnMeta, c) = NumericRate(rawRows, c)
        /\ Confirmed =>
              Rat(Len(finalData), Len(rawRows)) = DateScore(columnMeta, selectedDateCol)

\* the selection names two different columns, a date candidate and a numeric
\* candidate of the stored table
ValidSelection ==
    /\ selectedDateCol # selectedMetricCol
    /\ selectedDateCol \in ColumnsOf(columnMeta)
    /\ selectedMetricCol \in ColumnsOf(columnMeta)
    /\ Gt(DateRate(rawRows, selectedDateCol), Rat(4, 10))
    /\ Gt(NumericRate(rawRows, selectedMetricCol), Rat(4, 10))

\* C17: a confirm whose selection names one column twice, a date column that
\* is no date candidate or a metric column that is no numeric candidate does
\* not call onDataLoaded.
C17_InvalidOverrideRejected ==
    Confirmed => ValidSelection

\* C18: in the verify stage, whatever the user did with the two selects, the
\* selected date column and the selected metric column are different columns,
\* a date candidate and a numeric candidate.
C18_SelectionStaysValid ==
    stage = "VERIFY" => ValidSelection

\* C19: the onload of a sheet without data rows (no row at all, or the header
\* row alone) ends with the error "Dataset is too small to analyze.", not
\* with the no-date-column error, and leaves stage, table, profile and
\* selection as they were.
C19_NoDataRowsTooSmall ==
    [][(/\ Loaded
        /\ processed'[1].valid
        /\ Len(processed'[1].sheet) < 2) =>
          /\ error' = ErrTooSmall
          /\ cleaningStatus' = Null
          /\ KeepsSelection]_vars

C19_Witness ==
    /\ processed # <<>>
    /\ reading = <<>>
    /\ processed[1].valid
    /\ Len(processed[1].sheet) = 1
    /\ Len(processed[1].sheet[1]) >= 2
    /\ error = ErrTooSmall
    /\ stage = "UPLOAD"
    /\ selectedDateCol = 0 - 1
    /\ columnMeta = <<>>

DecimalText(s) ==
    LET intFrom == IF s # <<>> /\ s[1] = "-" THEN 2 ELSE 1
        intTo   == DigitsEnd(s, intFrom)
        hasDot  == intTo <= Len(s) /\ s[intTo] = "."
        end     == IF hasDot THEN DigitsEnd(s, intTo + 1) ELSE intTo
    IN  /\ intTo > intFrom
        /\ hasDot => end > intTo + 1
        /\ end = Len(s) + 1

\* the text left of a cell once dollar signs, commas and whitespace are gone
Residue(cell) == Trim(Strip(cell))

\* C21: the metric value of a row is a number exactly when the text left of
\* its cell after stripping is entirely a decimal number; a cell with other
\* characters after its digits, such as an ISO date, is unparsable.
C21_NumberOnlyForDecimalText ==
    Confirmed =>
        \A k \in 1..Len(tempPoints) :
            LET cell == At(rawRows[tempPoints[k].row + 1], selectedMetricCol)
            IN  cell # Undefined =>
                    (tempPoints[k].value # Null <=> DecimalText(Residue(cell)))

\* C25 (specification SpecInterp): every input entry that is a number stands
\* unchanged at its position in the output, and the input array is the same
\* after the call.
C25_KnownEntriesKept ==
    /\ [](Interpolated =>
            /\ Len(interpolated) = Len(data)
            /\ \A i \in Known : At(interpolated, i) = At(data, i))
    /\ [][data' = data]_vars

C25_Witness ==
    /\ ipc = "once"
    /\ Gaps # {}
    /\ \E i \in Known : At(data, i) = Num(0) /\ At(interpolated, i) = Num(0)
    /\ \E i \in Known : At(data, i) # Num(0) /\ At(interpolated, i) = At(data, i)
    /\ interpolated # data

\* C27: in the upload stage with no file read in progress the status text is
\* null, whatever uploads, confirms and purges came before.
C27_StatusClearedWhenIdle ==
    (stage = "UPLOAD" /\ reading = <<>>) => cleaningStatus = Null

(***************************************************************************)
(* Properties of App (specification SpecApp)                               *)
(***************************************************************************)
\* C28: at most one runForecastingContest request is in flight, and the flag
\* isForecastingRef.current is set exactly while one is: a call of runEngine
\* during a request starts nothing, and the flag is cleared when the request
\* settles, by success or by failure.
C28_OneRequestInFlight ==
    /\ Len(requests) <= 1
    /\ isForecasting <=> requests # <<>>

C28_Witness ==
    /\ Len(requests) = 1
    /\ isForecasting
    /\ loads >= 2
    /\ requests[1].load # state.historicalData.load
    /\ state.autoRefresh

\* C29: a stored forecast is the result of a request issued for the dataset
\* that the latest handleDataLoaded call loaded.
C29_ForecastOfCurrentData ==
    state.forecastResult # Null =>
        state.forecastResult[2] = state.historicalData.load

\* C30: loading is true exactly while a forecast request is in flight.
C30_LoadingTracksRequest ==
    state.loading <=> requests # <<>>

(***************************************************************************)
(* Short rows (specification SpecRagged)                                   *)
(***************************************************************************)
\* the rows with every missing trailing cell written as the empty string
Padded(rows, n) ==
    [r \in 1..Len(rows) |->
        [c \in 1..n |-> IF c <= Len(rows[r]) THEN rows[r][c] ELSE <<>>]]

\* C22: a row shorter than the header is profiled, and turned into points, as
\* the same row with empty strings in the missing places: the outcome of the
\* load, the stored profile, the stored selection and the scores are those of
\* the padded table, and a confirm emits the series of the padded table.
C22_ShortRowsAsEmpty ==
    /\ [][Loaded /\ HasDataRows(processed'[1]) =>
            LET file == processed'[1]
                padded == Padded(RowsOf(file), Len(HeadersOf(file)))
                profile == Stats(HeadersOf(file), padded)
            IN  /\ error' = ProcessError(profile)
                /\ error' = Null =>
                      /\ columnMeta' = profile
                      /\ selectedDateCol' = BestDateIndex(profile)
                      /\ selectedMetricCol' = BestMetricIndex(profile)
                      /\ \A c \in ColumnsOf(columnMeta') :
                            /\ DateScore(columnMeta', c) = DateRate(padded, c)
                            /\ NumericScore(columnMeta', c) = NumericRate(padded, c)]_vars
    /\ [](Confirmed =>
            LET padded == Padded(rawRows, Len(rawHeaders))
                points == SortedTempPoints(padded, selectedDateCol, selectedMetricCol)
            IN  /\ tempPoints = points
                /\ finalData = FinalData(points))

\* a confirmed table with a row that stops before the metric column: the row
\* is kept, and its value is filled in
C22_Witness ==
    /\ Confirmed
    /\ \E r \in 1..Len(rawRows) :
          /\ Len(rawRows[r]) <= selectedMetricCol
          /\ Len(rawRows[r]) > selectedDateCol
          /\ Len(rawRows[r]) < Len(rawHeaders)
    /\ Len(finalData) = Len(rawRows)

(***************************************************************************)
(* The candidate cutoff (specification SpecTall)                           *)
(***************************************************************************)
\* the number of rows whose cell in column c parses as a date
DateHits(rows, c) ==
    Cardinality({r \in 1..Len(rows) : tryParseDate(At(rows[r], c)) # Null})

\* the number of rows whose cell in column c parses as a number
NumericHits(rows, c) ==
    Cardinality({r \in 1..Len(rows) : cleanNumericString(At(rows[r], c)) # Null})

\* hits / rows > 0.4, in whole numbers
Above(hits, rows) == 10 * hits > 4 * rows

\* C24: a column is flagged as a date (numeric) candidate exactly when more
\* than 0.4 of its rows parse as dates (numbers); a column at exactly 0.4 is
\* not flagged, a load in which no column exceeds 0.4 as a date fails, and
\* the columns chosen by automatic selection exceed 0.4.
C24_CandidateStrictlyAbove ==
    /\ [](stage = "VERIFY" =>
            \A c \in ColumnsOf(columnMeta) :
                /\ columnMeta[c + 1].isLikelyDate
                      <=> Above(DateHits(rawRows, c), Len(rawRows))
                /\ columnMeta[c + 1].isLikelyNumeric
                      <=> Above(NumericHits(rawRows, c), Len(rawRows)))
    /\ [][Loaded /\ HasDataRows(processed'[1]) =>
            LET file == processed'[1]
                rows == RowsOf(file)
            IN  /\ (\A c \in ColsOf(file) : ~Above(DateHits(rows, c), Len(rows)))
                      => error' = ErrNoDate
                /\ error' = Null =>
                      /\ Above(DateHits(rows, selectedDateCol'), Len(rows))
                      /\ Above(NumericHits(rows, selectedMetricCol'), Len(rows))]_vars

\* five rows are shown, one column with 2 parsable rows and not flagged,
\* another with 3 and flagged
C24_Witness ==
    /\ stage = "VERIFY"
    /\ Len(rawRows) = 5
    /\ \E c \in ColumnsOf(columnMeta) :
          /\ DateHits(rawRows, c) = 2
          /\ NumericHits(rawRows, c) = 2
          /\ ~columnMeta[c + 1].isLikelyDate
          /\ ~columnMeta[c + 1].isLikelyNumeric
          /\ selectedDateCol # c
          /\ selectedMetricCol # c
    /\ \E c \in ColumnsOf(columnMeta) :
          /\ DateHits(rawRows, c) = 3
          /\ columnMeta[c + 1].isLikelyDate

(***************************************************************************)
(* Several uploads (specification SpecReload)                              *)
(***************************************************************************)
\* C23: in the VERIFY stage the stored profile is the profile of the stored
\* headers and rows and both selected columns are candidates of it; headers,
\* rows and profile change only in a load that succeeds, which stores the
\* headers, rows, profile and automatic selection of the file just read; a
\* confirm builds its series from the stored rows and selection.
C23_OneTableAtATime ==
    /\ [](stage = "VERIFY" =>
            /\ columnMeta = Stats(rawHeaders, rawRows)
            /\ selectedDateCol \in DateCandidateCols(columnMeta)
            /\ selectedMetricCol \in NumericCandidateCols(columnMeta))
    /\ [](Confirmed =>
            /\ stage = "VERIFY"
            /\ tempPoints = SortedTempPoints(rawRows, selectedDateCol, selectedMetricCol))
    /\ [][IF AutoSelected
           THEN /\ rawHeaders' = HeadersOf(processed'[1])
                /\ rawRows' = RowsOf(processed'[1])
                /\ columnMeta' = ProfileOf(processed'[1])
                /\ selectedDateCol' = LeftmostBestDate(columnMeta')
                /\ selectedMetricCol' = LeftmostBestMetric(columnMeta', selectedDateCol')
           ELSE UNCHANGED <<rawHeaders, rawRows, columnMeta>>]_vars

\* the second of two uploads has failed while the table of the first is shown
\* with a selection the user has changed
C23_Witness ==
    /\ stage = "VERIFY"
    /\ uploads = 2
    /\ reading = <<>>
    /\ error = ErrNoDate
    /\ selectedMetricCol # LeftmostBestMetric(columnMeta, selectedDateCol)

\* the step ends a read in failure: reader.onerror, or a reader.onload that
\* throws
FailedUpload == Len(reading') < Len(reading) /\ error' # Null

\* C26 as stated: a failed upload leaves the stage at UPLOAD and the rows,
\* headers, profile and selection unchanged.
C26_FailedUploadStaysInUpload ==
    [][FailedUpload =>
          /\ stage' = "UPLOAD"
          /\ UNCHANGED <<rawHeaders, rawRows, columnMeta,
                         selectedDateCol, selectedMetricCol>>]_vars

\* C26, amended: a failed upload leaves the stage as it was, and the rows,
\* headers, profile and selection unchanged; the status text is cleared.
C26_FailedUploadKeepsStage ==
    [][FailedUpload =>
          /\ KeepsSelection
          /\ cleaningStatus' = Null]_vars

\* a read has failed after an earlier one brought the component to VERIFY
C26_Witness ==
    /\ stage = "VERIFY"
    /\ uploads = 2
    /\ reading = <<>>
    /\ error \in {ErrTooSmall, ErrNoDate, ErrNoMetric, ErrRead, ErrProcess}
    /\ rawRows # <<>>

====
